---- MODULE Spec2Model ----
(***************************************************************************)
(* Model of scripts/script.py: the Google Trends collection routine        *)
(* get_trends_data (date parsing, window computation, the retry loop with  *)
(* its two provider requests per round, the derived metrics and the two    *)
(* result dictionaries).                                                   *)
(*                                                                         *)
(* Texts are sequences of one-character strings.  Numbers that Python      *)
(* keeps as floats are kept exactly: a mean is a fraction [num, den], and  *)
(* every rounded field of a result is an integer count of hundredths.      *)
(***************************************************************************)
EXTENDS Integers, Sequences, FiniteSets, TLC

(* ------------------------------------------------------------------ *)
(* Bounds of the model and constants of the program                   *)
(* ------------------------------------------------------------------ *)

\* largest value of the retries argument that is explored
MaxRetries == 3

\* time.sleep(12) between the two requests of a round
RateLimitDelay == 12

\* time.sleep(20) before the next round
BackoffDelay == 20

\* timedelta(days=90)
WindowDays == 90

\* datetime.MINYEAR, datetime.MAXYEAR and date.max.toordinal()
MinYear == 1
MaxYear == 9999
MaxOrdinal == 3652059

(* ------------------------------------------------------------------ *)
(* Calendar arithmetic of datetime / timedelta                        *)
(* ------------------------------------------------------------------ *)

Date(y, m, d) == [year |-> y, month |-> m, day |-> d]

NoDate == Date(0, 0, 0)

IsLeap(y) == (y % 4 = 0) /\ ((y % 100 # 0) \/ (y % 400 = 0))

DaysInMonth(y, m) ==
    IF m = 2 THEN (IF IsLeap(y) THEN 29 ELSE 28)
    ELSE IF m \in {4, 6, 9, 11} THEN 30 ELSE 31

\* number of days before January 1st of year y
DaysBeforeYear(y) ==
    LET p == y - 1 IN p * 365 + (p \div 4) - (p \div 100) + (p \div 400)

RECURSIVE DaysBeforeMonth(_, _)
\* number of days in year y before the first day of month m
DaysBeforeMonth(y, m) ==
    IF m = 1 THEN 0 ELSE DaysBeforeMonth(y, m - 1) + DaysInMonth(y, m - 1)

\* date.toordinal(): 0001-01-01 is day 1
ToOrdinal(dt) ==
    DaysBeforeYear(dt.year) + DaysBeforeMonth(dt.year, dt.month) + dt.day

RECURSIVE MonthOfYearDay(_, _, _)
\* the month m' >= m and the day of it that hold the n-th (0-based) day counted from month m
MonthOfYearDay(y, m, n) ==
    IF n < DaysInMonth(y, m) THEN Date(y, m, n + 1)
    ELSE MonthOfYearDay(y, m + 1, n - DaysInMonth(y, m))

\* date.fromordinal(): the 400/100/4/1-year cycle decomposition
FromOrdinal(ord) ==
    LET n0   == ord - 1
        n400 == n0 \div 146097
        r400 == n0 % 146097
        n100 == r400 \div 36524
        r100 == r400 % 36524
        n4   == r100 \div 1461
        r4   == r100 % 1461
        n1   == r4 \div 365
        r1   == r4 % 365
        y    == n400 * 400 + n100 * 100 + n4 * 4 + n1 + 1
    IN  IF n1 = 4 \/ n100 = 4 THEN Date(y - 1, 12, 31)
        ELSE MonthOfYearDay(y, 1, r1)

\* datetime +/- timedelta(days=k) stays inside [date.min, date.max], else OverflowError
DateInRange(dt, k) ==
    LET o == ToOrdinal(dt) + k IN o >= 1 /\ o <= MaxOrdinal

AddDays(dt, k) == FromOrdinal(ToOrdinal(dt) + k)

(* ------------------------------------------------------------------ *)
(* Text <-> date: strptime('%Y-%m-%d') and strftime('%Y-%m-%d')        *)
(* ------------------------------------------------------------------ *)

Digits == {"0", "1", "2", "3", "4", "5", "6", "7", "8", "9"}

DigitVal(c) ==
    CASE c = "0" -> 0 [] c = "1" -> 1 [] c = "2" -> 2 [] c = "3" -> 3
      [] c = "4" -> 4 [] c = "5" -> 5 [] c = "6" -> 6 [] c = "7" -> 7
      [] c = "8" -> 8 [] c = "9" -> 9

DigitChar(n) ==
    CASE n = 0 -> "0" [] n = 1 -> "1" [] n = 2 -> "2" [] n = 3 -> "3"
      [] n = 4 -> "4" [] n = 5 -> "5" [] n = 6 -> "6" [] n = 7 -> "7"
      [] n = 8 -> "8" [] n = 9 -> "9"

IsDigitAt(s, i) == i >= 1 /\ i <= Len(s) /\ s[i] \in Digits

IsCharAt(s, i, c) == i >= 1 /\ i <= Len(s) /\ s[i] = c

RECURSIVE NumberAt(_, _, _)
\* the decimal value of the digits s[i..j]
NumberAt(s, i, j) ==
    IF j < i THEN 0 ELSE NumberAt(s, i, j - 1) * 10 + DigitVal(s[j])

\* length matched at position i by the %m group 1[0-2]|0[1-9]|[1-9] followed by "-"; 0: none
MonthGroupLen(s, i) ==
    IF IsDigitAt(s, i) /\ IsDigitAt(s, i + 1)
       /\ NumberAt(s, i, i + 1) \in 1..12 /\ IsCharAt(s, i + 2, "-")
    THEN 2
    ELSE IF IsDigitAt(s, i) /\ s[i] # "0" /\ IsCharAt(s, i + 1, "-")
    THEN 1
    ELSE 0

\* length matched at position i by the %d group 3[0-1]|[1-2]\d|0[1-9]|[1-9]| [1-9]; 0: none
DayGroupLen(s, i) ==
    IF IsDigitAt(s, i) /\ IsDigitAt(s, i + 1) /\ NumberAt(s, i, i + 1) \in 1..31
    THEN 2
    ELSE IF IsDigitAt(s, i) /\ s[i] # "0"
    THEN 1
    ELSE IF IsCharAt(s, i, " ") /\ IsDigitAt(s, i + 1) /\ s[i + 1] # "0"
    THEN 2
    ELSE 0

\* first position of the day's digits inside a matched %d group
DayDigitsFrom(s, i) == IF IsCharAt(s, i, " ") THEN i + 1 ELSE i

\* datetime.strptime(s, '%Y-%m-%d'): [ok, date]; ok = FALSE stands for the ValueError
Strptime(s) ==
    LET yearOk == (\A i \in 1..4 : IsDigitAt(s, i)) /\ IsCharAt(s, 5, "-")
        ml     == IF yearOk THEN MonthGroupLen(s, 6) ELSE 0
        dpos   == 6 + ml + 1
        dl     == IF ml > 0 THEN DayGroupLen(s, dpos) ELSE 0
        \* "unconverted data remains" when the match stops before the end
        whole  == dl > 0 /\ dpos + dl - 1 = Len(s)
        y      == NumberAt(s, 1, 4)
        m      == NumberAt(s, 6, 6 + ml - 1)
        d      == NumberAt(s, DayDigitsFrom(s, dpos), dpos + dl - 1)
    IN  IF whole /\ y >= MinYear /\ y <= MaxYear /\ d <= DaysInMonth(y, m)
        THEN [ok |-> TRUE, date |-> Date(y, m, d)]
        ELSE [ok |-> FALSE, date |-> NoDate]

TwoDigits(n) == <<DigitChar(n \div 10), DigitChar(n % 10)>>

FourDigits(n) ==
    <<DigitChar(n \div 1000), DigitChar((n \div 100) % 10),
      DigitChar((n \div 10) % 10), DigitChar(n % 10)>>

\* dt.strftime('%Y-%m-%d') for a year of four digits
Strftime(dt) ==
    FourDigits(dt.year) \o <<"-">> \o TwoDigits(dt.month) \o <<"-">> \o TwoDigits(dt.day)

\* f"{start.strftime('%Y-%m-%d')} {end.strftime('%Y-%m-%d')}"
Timeframe(start, end) == Strftime(start) \o <<" ">> \o Strftime(end)

(* ------------------------------------------------------------------ *)
(* Numbers: numpy mean / max / min / std and Python round(x, 2)        *)
(* ------------------------------------------------------------------ *)

Frac(n, d) == [num |-> n, den |-> d]

RECURSIVE SumSeq(_)
SumSeq(v) == IF v = <<>> THEN 0 ELSE Head(v) + SumSeq(Tail(v))

RECURSIVE SumSquares(_)
SumSquares(v) == IF v = <<>> THEN 0 ELSE Head(v) * Head(v) + SumSquares(Tail(v))

\* np.mean(values) of a non-empty array
Mean(v) == Frac(SumSeq(v), Len(v))

\* np.max(values), np.min(values) of a non-empty array
MaxOf(v) == CHOOSE x \in {v[i] : i \in DOMAIN v} : \A j \in DOMAIN v : v[j] <= x
MinOf(v) == CHOOSE x \in {v[i] : i \in DOMAIN v} : \A j \in DOMAIN v : x <= v[j]

\* nearest integer to n / d (d > 0), a tie going to the even neighbour
RoundHalfEven(n, d) ==
    LET f == n \div d
        r == n - f * d
    IN  IF 2 * r < d THEN f
        ELSE IF 2 * r > d THEN f + 1
        ELSE IF f % 2 = 0 THEN f ELSE f + 1

\* round(x, 2) of the fraction x, as a count of hundredths
Round2(x) == RoundHalfEven(100 * x.num, x.den)

RECURSIVE IsqrtBetween(_, _, _)
\* the largest r in lo..hi with r * r <= x
IsqrtBetween(x, lo, hi) ==
    IF lo >= hi THEN lo
    ELSE LET mid == (lo + hi + 1) \div 2
         IN  IF mid * mid <= x THEN IsqrtBetween(x, mid, hi)
             ELSE IsqrtBetween(x, lo, mid - 1)

Isqrt(x) == IsqrtBetween(x, 0, 46340)

\* np.std(values): sqrt(n * sum(x^2) - sum(x)^2) / n, kept as [sq, den] = sqrt(sq) / den
StdDev(v) ==
    [sq  |-> Len(v) * SumSquares(v) - SumSeq(v) * SumSeq(v),
     den |-> Len(v)]

\* round(sqrt(sq) / den, 2) as a count of hundredths: the largest h with
\* (2h - 1) * den <= sqrt(40000 * sq)
Round2Sqrt(s) == ((Isqrt(40000 * s.sq) \div s.den) + 1) \div 2

(* ------------------------------------------------------------------ *)
(* Values of the result dictionary                                    *)
(* ------------------------------------------------------------------ *)

\* None, a finite number (in hundredths) and float('inf')
Null == [null |-> TRUE, inf |-> FALSE, h |-> 0]
Num(h) == [null |-> FALSE, inf |-> FALSE, h |-> h]
Inf == [null |-> FALSE, inf |-> TRUE, h |-> 0]

StatKeys ==
    {"avg_search_before", "avg_search_after", "max_search_before", "max_search_after",
     "min_search_before", "min_search_after", "percent_change", "absolute_change"}

NumericKeys == StatKeys \cup {"volatility"}

SuccessKeys ==
    {"book_title", "ban_date", "data_collected", "collection_successful"} \cup NumericKeys

FailureKeys == SuccessKeys \cup {"error"}

\* what the call has handed to its caller so far: nothing yet ("pending"), a dictionary
\* ("dict", its keys in keys), None ("None") or an exception ("raise", its name in error)
Outcome(kind, keys, title, date, stats, stamp, ok, err) ==
    [kind |-> kind, keys |-> keys, book_title |-> title, ban_date |-> date,
     stats |-> stats, data_collected |-> stamp, collection_successful |-> ok,
     error |-> err]

NullStats == [k \in NumericKeys |-> Null]

Pending == Outcome("pending", {}, "", <<>>, NullStats, 0, FALSE, "")
ReturnNone == Outcome("None", {}, "", <<>>, NullStats, 0, FALSE, "")
Raised(name) == Outcome("raise", {}, "", <<>>, NullStats, 0, FALSE, name)

(* ------------------------------------------------------------------ *)
(* Inputs and the provider                                            *)
(* ------------------------------------------------------------------ *)

Titles == {"Gender Queer", "The Bluest Eye"}

DateTexts ==
    { <<"2", "0", "2", "2", "-", "0", "9", "-", "0", "1">>,
      <<"2", "0", "2", "4", "-", "0", "3", "-", "0", "1">>,
      <<"2", "0", "2", "3", "-", "0", "1", "-", "1", "5">>,
      <<"2", "0", "2", "2", "-", "9", "-", "1">>,
      <<"0", "0", "0", "1", "-", "0", "1", "-", "1", "5">>,
      <<"9", "9", "9", "9", "-", "1", "2", "-", "0", "1">>,
      <<"2", "0", "2", "2", "-", "1", "3", "-", "4", "0">>,
      <<"2", "0", "2", "3", "-", "0", "2", "-", "2", "9">>,
      <<"2", "0", "2", "2", "/", "0", "9", "/", "0", "1">>,
      <<>> }

RetriesValues == 0..MaxRetries

\* the messages of the errors the provider raises
ProviderErrors == {"ResponseError 429", "ReadTimeout"}

\* the score columns the provider returns
Series == { <<0, 0>>, <<10, 20, 30>>, <<40, 50, 60>>, <<10, 20, 25>> }

\* one answer of build_payload + interest_over_time: an exception ("raise"), an empty
\* frame ("empty"), a frame without the keyword's column ("nocolumn") or scores ("data")
Response(kind, err, values) == [kind |-> kind, err |-> err, values |-> values]

Responses ==
    {Response("raise", m, <<>>) : m \in ProviderErrors}
    \cup {Response("empty", "", <<>>), Response("nocolumn", "", <<>>)}
    \cup {Response("data", "", v) : v \in Series}

\* every title the provider is asked about
AllTitles == Titles \cup {"All Boys Aren't Blue"}

\* the provider as the answers it may give per keyword and window; AnyProvider may
\* give any answer to any request
AnyProvider == [t \in AllTitles |-> [before |-> Responses, after |-> Responses]]

\* a frame variable that no request has assigned yet
NoFrame == Response("unbound", "", <<>>)

\* not df.empty and book_title in df.columns
HasColumn(resp) == resp.kind = "data"

Event(op, arg, timeframe, geo, secs) ==
    [op |-> op, arg |-> arg, timeframe |-> timeframe, geo |-> geo, secs |-> secs]

(* ------------------------------------------------------------------ *)
(* State                                                               *)
(* ------------------------------------------------------------------ *)

VARIABLES
    pc,                 \* position in get_trends_data
    book_title, ban_date_str, retries,
    ban_date,
    before_start, before_end, after_start, after_end,
    before_timeframe, after_timeframe,
    attempt,
    bound,              \* the names among before_values, after_values that are bound
    before_df, after_df, \* the frames interest_over_time() returned last
    before_values, after_values,
    before_avg, before_max, before_min,
    after_avg, after_max, after_min,
    percent_change, absolute_change, volatility,
    e,                  \* str(e) of the exception caught last
    clock,              \* time slept so far; datetime.now() reads it
    trace,              \* requests, provider answers, sleeps and log lines, in order
    result,             \* what the call returned or raised
    pytrends,           \* the provider behind the module's TrendReq client
    pcAll,              \* position in collect_all_books; "off" when it is not running
    books_df,           \* the input table
    index,              \* the label of the row being processed
    all_results,
    temp_csv,           \* the partial snapshots written, in order
    output_csv,         \* the final table written
    summary             \* the printed summary

args == <<book_title, ban_date_str, retries>>
windows ==
    <<ban_date, before_start, before_end, after_start, after_end,
      before_timeframe, after_timeframe>>
beforeStats == <<before_df, before_values, before_avg, before_max, before_min>>
afterStats == <<after_df, after_values, after_avg, after_max, after_min>>
metrics == <<percent_change, absolute_change, volatility>>

orch == <<pytrends, pcAll, books_df, index, all_results, temp_csv, output_csv, summary>>

vars ==
    <<pc, args, windows, attempt, bound, beforeStats, afterStats, metrics,
      e, clock, trace, result, orch>>

\* a file that has not been written, a summary that has not been printed
NotWritten == [written |-> FALSE, rows |-> <<>>]
NoSummary ==
    [printed |-> FALSE, raised |-> "", total |-> 0, successful |-> 0, failed |-> 0,
     mean |-> [nan |-> FALSE, inf |-> FALSE, h |-> 0]]
NoTable == [columns |-> {}, rows |-> <<>>]

\* the locals of get_trends_data before its first statement
FreshLocals ==
    /\ ban_date = NoDate
    /\ before_start = NoDate /\ before_end = NoDate
    /\ after_start = NoDate /\ after_end = NoDate
    /\ before_timeframe = <<>> /\ after_timeframe = <<>>
    /\ attempt = 0
    /\ bound = {}
    /\ before_df = NoFrame /\ after_df = NoFrame
    /\ before_values = <<>> /\ after_values = <<>>
    /\ before_avg = Frac(0, 1) /\ before_max = 0 /\ before_min = 0
    /\ after_avg = Frac(0, 1) /\ after_max = 0 /\ after_min = 0
    /\ percent_change = [inf |-> FALSE, num |-> 0, den |-> 1]
    /\ absolute_change = Frac(0, 1)
    /\ volatility = [sq |-> 0, den |-> 1]
    /\ e = ""

Init ==
    /\ pc = "parse"
    /\ book_title \in Titles
    /\ ban_date_str \in DateTexts
    /\ retries \in RetriesValues
    /\ FreshLocals
    /\ clock = 0
    /\ trace = <<>>
    /\ result = Pending
    /\ pytrends = AnyProvider
    /\ pcAll = "off"
    /\ books_df = NoTable
    /\ index = 0
    /\ all_results = <<>>
    /\ temp_csv = <<>>
    /\ output_csv = NotWritten
    /\ summary = NoSummary

(* ------------------------------------------------------------------ *)
(* get_trends_data, one action per step                                *)
(* ------------------------------------------------------------------ *)

Log(level, what) == Event("log", level, what, <<>>, 0)

\* ParseDate with the except branch falling back to a default date instead of returning
ParseDateFallback ==
    /\ pc = "parse"
    /\ \/ /\ Strptime(ban_date_str).ok
          /\ ban_date' = Strptime(ban_date_str).date
          /\ UNCHANGED trace
       \/ /\ ~Strptime(ban_date_str).ok
          /\ trace' = Append(trace, Log("error", <<"Invalid date format">>))
          /\ ban_date' = Date(2022, 1, 1)
    /\ pc' = "windows"
    /\ UNCHANGED <<orch, args, before_start, before_end, after_start, after_end,
                   before_timeframe, after_timeframe, attempt, bound, beforeStats,
                   afterStats, metrics, e, clock, result>>

\* lines 72-76: strptime inside try / bare except; the except branch logs and returns None
ParseDate ==
    /\ pc = "parse"
    /\ \/ /\ Strptime(ban_date_str).ok
          /\ ban_date' = Strptime(ban_date_str).date
          /\ pc' = "windows"
          /\ UNCHANGED <<trace, result>>
       \/ /\ ~Strptime(ban_date_str).ok
          /\ trace' = Append(trace, Log("error", <<"Invalid date format">>))
          /\ result' = ReturnNone
          /\ pc' = "done"
          /\ UNCHANGED ban_date
    /\ UNCHANGED <<orch, args, before_start, before_end, after_start, after_end,
                   before_timeframe, after_timeframe, attempt, bound, beforeStats,
                   afterStats, metrics, e, clock>>

\* lines 79-86: the four window ends and the two timeframe texts; the date arithmetic is
\* outside every try, so an OverflowError of it leaves the function
ComputeWindows ==
    /\ pc = "windows"
    /\ \/ /\ DateInRange(ban_date, -WindowDays) /\ DateInRange(ban_date, WindowDays)
          /\ before_start' = AddDays(ban_date, -WindowDays)
          /\ before_end' = AddDays(ban_date, -1)
          /\ after_start' = AddDays(ban_date, 1)
          /\ after_end' = AddDays(ban_date, WindowDays)
          /\ before_timeframe' = Timeframe(before_start', before_end')
          /\ after_timeframe' = Timeframe(after_start', after_end')
          /\ pc' = "loop"
          /\ UNCHANGED result
       \/ /\ ~DateInRange(ban_date, -WindowDays)
          /\ result' = Raised("OverflowError")
          /\ pc' = "done"
          /\ UNCHANGED <<before_start, before_end, after_start, after_end,
                         before_timeframe, after_timeframe>>
       \/ /\ DateInRange(ban_date, -WindowDays) /\ ~DateInRange(ban_date, WindowDays)
          /\ before_start' = AddDays(ban_date, -WindowDays)
          /\ before_end' = AddDays(ban_date, -1)
          /\ after_start' = IF DateInRange(ban_date, 1) THEN AddDays(ban_date, 1)
                            ELSE after_start
          /\ result' = Raised("OverflowError")
          /\ pc' = "done"
          /\ UNCHANGED <<after_end, before_timeframe, after_timeframe>>
    /\ UNCHANGED <<orch, args, ban_date, attempt, bound, beforeStats, afterStats, metrics,
                   e, clock, trace>>

\* LoopHead going round once more: range(retries + 1)
LoopHeadOffByOne ==
    /\ pc = "loop"
    /\ \/ /\ attempt < retries + 1
          /\ trace' = Append(trace, Event("round", "", <<>>, <<>>, attempt))
          /\ pc' = "before"
          /\ UNCHANGED result
       \/ /\ ~(attempt < retries + 1)
          /\ result' = ReturnNone
          /\ pc' = "done"
          /\ UNCHANGED trace
    /\ UNCHANGED <<orch, args, windows, attempt, bound, beforeStats, afterStats, metrics,
                   e, clock>>

\* line 89: for attempt in range(retries); falling off the loop returns None
LoopHead ==
    /\ pc = "loop"
    /\ \/ /\ attempt < retries
          /\ trace' = Append(trace, Event("round", "", <<>>, <<>>, attempt))
          /\ pc' = "before"
          /\ UNCHANGED result
       \/ /\ ~(attempt < retries)
          /\ result' = ReturnNone
          /\ pc' = "done"
          /\ UNCHANGED trace
    /\ UNCHANGED <<orch, args, windows, attempt, bound, beforeStats, afterStats, metrics,
                   e, clock>>

Request(timeframe) == Event("request", book_title, timeframe, <<"U", "S">>, 0)

Answer(resp) ==
    Event(IF resp.kind = "raise" THEN "raise" ELSE "response",
          IF resp.kind = "raise" THEN resp.err ELSE "", <<>>, <<>>, 0)

\* lines 100-110: the before-window request and its summary
FetchBefore ==
    /\ pc = "before"
    /\ \E resp \in pytrends[book_title].before :
        /\ trace' = trace \o <<Request(before_timeframe), Answer(resp)>>
        /\ \/ /\ resp.kind = "raise"
              /\ e' = resp.err
              /\ pc' = "except"
              /\ UNCHANGED <<bound, beforeStats>>
           \/ /\ resp.kind # "raise" /\ HasColumn(resp)
              /\ before_df' = resp
              /\ before_values' = resp.values
              /\ bound' = bound \cup {"before_values"}
              /\ before_avg' = Mean(resp.values)
              /\ before_max' = MaxOf(resp.values)
              /\ before_min' = MinOf(resp.values)
              /\ pc' = "sleep"
              /\ UNCHANGED e
           \/ /\ resp.kind # "raise" /\ ~HasColumn(resp)
              /\ before_avg' = Frac(0, 1)
              /\ before_max' = 0
              /\ before_min' = 0
              /\ pc' = "sleep"
              /\ before_df' = resp
              /\ UNCHANGED <<e, bound, before_values>>
    /\ UNCHANGED <<orch, args, windows, attempt, afterStats, metrics, clock, result>>

\* RateLimitSleep without the time.sleep(12)
RateLimitSleepSkipped ==
    /\ pc = "sleep"
    /\ pc' = "after"
    /\ UNCHANGED <<orch, args, windows, attempt, bound, beforeStats, afterStats, metrics,
                   e, result, clock, trace>>

\* line 113: time.sleep(12)
RateLimitSleep ==
    /\ pc = "sleep"
    /\ clock' = clock + RateLimitDelay
    /\ trace' = Append(trace, Event("sleep", "", <<>>, <<>>, RateLimitDelay))
    /\ pc' = "after"
    /\ UNCHANGED <<orch, args, windows, attempt, bound, beforeStats, afterStats, metrics,
                   e, result>>

\* FetchAfter asking for the before window again
FetchAfterWrongWindow ==
    /\ pc = "after"
    /\ \E resp \in pytrends[book_title].after :
        /\ trace' = trace \o <<Request(before_timeframe), Answer(resp)>>
        /\ \/ /\ resp.kind = "raise"
              /\ e' = resp.err
              /\ pc' = "except"
              /\ UNCHANGED <<bound, afterStats>>
           \/ /\ resp.kind # "raise" /\ HasColumn(resp)
              /\ after_df' = resp
              /\ after_values' = resp.values
              /\ bound' = bound \cup {"after_values"}
              /\ after_avg' = Mean(resp.values)
              /\ after_max' = MaxOf(resp.values)
              /\ after_min' = MinOf(resp.values)
              /\ pc' = "metrics"
              /\ UNCHANGED e
           \/ /\ resp.kind # "raise" /\ ~HasColumn(resp)
              /\ after_avg' = Frac(0, 1)
              /\ after_max' = 0
              /\ after_min' = 0
              /\ pc' = "metrics"
              /\ after_df' = resp
              /\ UNCHANGED <<e, bound, after_values>>
    /\ UNCHANGED <<orch, args, windows, attempt, beforeStats, metrics, clock, result>>

\* lines 116-125: the after-window request and its summary
FetchAfter ==
    /\ pc = "after"
    /\ \E resp \in pytrends[book_title].after :
        /\ trace' = trace \o <<Request(after_timeframe), Answer(resp)>>
        /\ \/ /\ resp.kind = "raise"
              /\ e' = resp.err
              /\ pc' = "except"
              /\ UNCHANGED <<bound, afterStats>>
           \/ /\ resp.kind # "raise" /\ HasColumn(resp)
              /\ after_df' = resp
              /\ after_values' = resp.values
              /\ bound' = bound \cup {"after_values"}
              /\ after_avg' = Mean(resp.values)
              /\ after_max' = MaxOf(resp.values)
              /\ after_min' = MinOf(resp.values)
              /\ pc' = "metrics"
              /\ UNCHANGED e
           \/ /\ resp.kind # "raise" /\ ~HasColumn(resp)
              /\ after_avg' = Frac(0, 1)
              /\ after_max' = 0
              /\ after_min' = 0
              /\ pc' = "metrics"
              /\ after_df' = resp
              /\ UNCHANGED <<e, bound, after_values>>
    /\ UNCHANGED <<orch, args, windows, attempt, beforeStats, metrics, clock, result>>

\* Metrics without the 0-to-0 case: every zero before-average gives float('inf')
MetricsAlwaysInf ==
    /\ pc = "metrics"
    /\ \/ /\ before_avg.num > 0
          /\ percent_change' =
                [inf |-> FALSE,
                 num |-> 100 * (after_avg.num * before_avg.den
                                - before_avg.num * after_avg.den),
                 den |-> before_avg.num * after_avg.den]
          /\ absolute_change' =
                Frac(after_avg.num * before_avg.den - before_avg.num * after_avg.den,
                     after_avg.den * before_avg.den)
       \/ /\ ~(before_avg.num > 0)
          /\ percent_change' = [inf |-> TRUE, num |-> 0, den |-> 1]
          /\ absolute_change' = after_avg
    /\ pc' = "volatility"
    /\ UNCHANGED <<orch, args, windows, attempt, bound, beforeStats, afterStats, volatility,
                   e, clock, trace, result>>

\* Metrics with the difference taken the wrong way round: before_avg - after_avg
MetricsSignFlipped ==
    /\ pc = "metrics"
    /\ \/ /\ before_avg.num > 0
          /\ percent_change' =
                [inf |-> FALSE,
                 num |-> 100 * (before_avg.num * after_avg.den
                                - after_avg.num * before_avg.den),
                 den |-> before_avg.num * after_avg.den]
          /\ absolute_change' =
                Frac(before_avg.num * after_avg.den - after_avg.num * before_avg.den,
                     after_avg.den * before_avg.den)
       \/ /\ ~(before_avg.num > 0)
          /\ percent_change' =
                IF after_avg.num = 0 THEN [inf |-> FALSE, num |-> 0, den |-> 1]
                ELSE [inf |-> TRUE, num |-> 0, den |-> 1]
          /\ absolute_change' = after_avg
    /\ pc' = "volatility"
    /\ UNCHANGED <<orch, args, windows, attempt, bound, beforeStats, afterStats, volatility,
                   e, clock, trace, result>>

\* lines 128-133: percent_change and absolute_change
Metrics ==
    /\ pc = "metrics"
    /\ \/ /\ before_avg.num > 0
          /\ percent_change' =
                [inf |-> FALSE,
                 num |-> 100 * (after_avg.num * before_avg.den
                                - before_avg.num * after_avg.den),
                 den |-> before_avg.num * after_avg.den]
          /\ absolute_change' =
                Frac(after_avg.num * before_avg.den - before_avg.num * after_avg.den,
                     after_avg.den * before_avg.den)
       \/ /\ ~(before_avg.num > 0)
          /\ percent_change' =
                IF after_avg.num = 0 THEN [inf |-> FALSE, num |-> 0, den |-> 1]
                ELSE [inf |-> TRUE, num |-> 0, den |-> 1]
          /\ absolute_change' = after_avg
    /\ pc' = "volatility"
    /\ UNCHANGED <<orch, args, windows, attempt, bound, beforeStats, afterStats, volatility,
                   e, clock, trace, result>>

\* lines 136-137: the pooled list and its standard deviation; reading a values array
\* that no round has bound raises UnboundLocalError inside the try
Volatility ==
    /\ pc = "volatility"
    /\ \/ /\ "before_values" \notin bound
          /\ e' = "UnboundLocalError before_values"
          /\ pc' = "except"
          /\ UNCHANGED volatility
       \/ /\ "before_values" \in bound /\ "after_values" \notin bound
          /\ e' = "UnboundLocalError after_values"
          /\ pc' = "except"
          /\ UNCHANGED volatility
       \/ /\ {"before_values", "after_values"} \subseteq bound
          /\ LET all_values == before_values \o after_values
             IN  volatility' = IF Len(all_values) > 0 THEN StdDev(all_values)
                               ELSE [sq |-> 0, den |-> 1]
          /\ pc' = "return"
          /\ UNCHANGED e
    /\ UNCHANGED <<orch, args, windows, attempt, bound, beforeStats, afterStats,
                   percent_change, absolute_change, clock, trace, result>>

\* lines 144-152: the rounded numeric fields of the success dictionary
SuccessStats ==
    [k \in NumericKeys |->
        CASE k = "avg_search_before" -> Num(Round2(before_avg))
          [] k = "avg_search_after"  -> Num(Round2(after_avg))
          [] k = "max_search_before" -> Num(100 * before_max)
          [] k = "max_search_after"  -> Num(100 * after_max)
          [] k = "min_search_before" -> Num(100 * before_min)
          [] k = "min_search_after"  -> Num(100 * after_min)
          [] k = "percent_change"    -> IF percent_change.inf THEN Inf
                                        ELSE Num(Round2(percent_change))
          [] k = "absolute_change"   -> Num(Round2(absolute_change))
          [] k = "volatility"        -> Num(Round2Sqrt(volatility))]

\* lines 139-155: log and return the success dictionary
ReturnSuccess ==
    /\ pc = "return"
    /\ trace' = Append(trace, Log("info", <<"Successfully collected data">>))
    /\ result' = Outcome("dict", SuccessKeys, book_title, ban_date_str, SuccessStats,
                         clock, TRUE, "")
    /\ pc' = "done"
    /\ UNCHANGED <<orch, args, windows, attempt, bound, beforeStats, afterStats, metrics,
                   e, clock>>

\* FailureRecord that keeps the before-window average it had already computed
FailureRecordPartial ==
    Outcome("dict", FailureKeys, book_title, ban_date_str,
            [NullStats EXCEPT !["avg_search_before"] = Num(Round2(before_avg))],
            clock, FALSE, e)

\* lines 163-178: the failure dictionary
FailureRecord ==
    Outcome("dict", FailureKeys, book_title, ban_date_str, NullStats, clock, FALSE, e)

\* Except without the time.sleep(20) of the retry branch
ExceptNoBackoff ==
    /\ pc = "except"
    /\ \/ /\ attempt < retries - 1
          /\ trace' = Append(trace, Log("warning", <<"Retrying">>))
          /\ attempt' = attempt + 1
          /\ pc' = "loop"
          /\ UNCHANGED result
       \/ /\ ~(attempt < retries - 1)
          /\ trace' = Append(trace, Log("error", <<"All attempts failed">>))
          /\ result' = FailureRecord
          /\ pc' = "done"
          /\ UNCHANGED attempt
    /\ UNCHANGED <<orch, args, windows, bound, beforeStats, afterStats, metrics, e, clock>>

\* Except testing attempt < retries: the last round backs off too and nothing is returned
ExceptOffByOne ==
    /\ pc = "except"
    /\ \/ /\ attempt < retries
          /\ trace' = trace \o <<Log("warning", <<"Retrying">>),
                                 Event("sleep", "", <<>>, <<>>, BackoffDelay)>>
          /\ clock' = clock + BackoffDelay
          /\ attempt' = attempt + 1
          /\ pc' = "loop"
          /\ UNCHANGED result
       \/ /\ ~(attempt < retries)
          /\ trace' = Append(trace, Log("error", <<"All attempts failed">>))
          /\ result' = FailureRecord
          /\ pc' = "done"
          /\ UNCHANGED <<clock, attempt>>
    /\ UNCHANGED <<orch, args, windows, bound, beforeStats, afterStats, metrics, e>>

\* lines 157-178: except Exception as e: back off and go round again, or give up
Except ==
    /\ pc = "except"
    /\ \/ /\ attempt < retries - 1
          /\ trace' = trace \o <<Log("warning", <<"Retrying">>),
                                 Event("sleep", "", <<>>, <<>>, BackoffDelay)>>
          /\ clock' = clock + BackoffDelay
          /\ attempt' = attempt + 1
          /\ pc' = "loop"
          /\ UNCHANGED result
       \/ /\ ~(attempt < retries - 1)
          /\ trace' = Append(trace, Log("error", <<"All attempts failed">>))
          /\ result' = FailureRecord
          /\ pc' = "done"
          /\ UNCHANGED <<clock, attempt>>
    /\ UNCHANGED <<orch, args, windows, bound, beforeStats, afterStats, metrics, e>>

Next ==
    \/ ParseDate
    \/ ComputeWindows
    \/ LoopHead
    \/ FetchBefore
    \/ RateLimitSleep
    \/ FetchAfter
    \/ Metrics
    \/ Volatility
    \/ ReturnSuccess
    \/ Except

Spec == Init /\ [][Next]_vars

(* ------------------------------------------------------------------ *)
(* collect_all_books                                                   *)
(* ------------------------------------------------------------------ *)

\* the retries default of get_trends_data, which the orchestrator does not override
DefaultRetries == 3

\* a snapshot is written when (index + 1) % 10 == 0
SnapshotEvery == 10

\* the longest input table
MaxBooks == 20

\* the longest input table read with the provider that answers either way
MaxFlakyBooks == 2

Row(title, date, state) == [title |-> title, date |-> date, state |-> state]

\* a subject that is collected, one whose before window is all zero, one with a date
\* text that strptime rejects, one the provider always refuses, and one whose before
\* window lies before year 1
OkRow == Row("Gender Queer", <<"2", "0", "2", "2", "-", "0", "9", "-", "0", "1">>, "Texas")
ZeroRow == Row("The Bluest Eye", <<"2", "0", "2", "4", "-", "0", "3", "-", "0", "1">>, "Florida")
BadDateRow == Row("Gender Queer", <<"2", "0", "2", "2", "/", "0", "9", "/", "0", "1">>, "Utah")
FailRow ==
    Row("All Boys Aren't Blue", <<"2", "0", "2", "3", "-", "0", "1", "-", "1", "5">>, "Iowa")
OverflowRow ==
    Row("The Bluest Eye", <<"0", "0", "0", "1", "-", "0", "1", "-", "1", "5">>, "Texas")

\* the rows of an input table repeat one of these
Patterns ==
    { <<OkRow>>, <<FailRow>>, <<OkRow, ZeroRow>>, <<OkRow, FailRow>>,
      <<BadDateRow, OkRow>>, <<OkRow, ZeroRow, BadDateRow, FailRow>>,
      <<FailRow, OkRow, OkRow, OkRow, OkRow, OkRow, OkRow, OkRow, OkRow, OkRow, BadDateRow>>,
      <<OkRow, OkRow, OkRow, OverflowRow>> }

ColumnSets == { {"Book Title", "Ban Date", "State"}, {"Book Title", "Ban Date"} }

\* pd.read_csv(input_csv): n rows under a default RangeIndex
Table(columns, pattern, n) ==
    [columns |-> columns, rows |-> [i \in 1..n |-> pattern[((i - 1) % Len(pattern)) + 1]]]

Tables == {Table(c, p, n) : c \in ColumnSets, p \in Patterns, n \in 0..MaxBooks}

SmallTables == {Table(c, p, n) : c \in ColumnSets, p \in Patterns, n \in 0..MaxFlakyBooks}

\* a provider that answers each title one way
StubProvider ==
    [t \in AllTitles |->
        CASE t = "Gender Queer" ->
                [before |-> {Response("data", "", <<10, 20, 30>>)},
                 after |-> {Response("data", "", <<40, 50, 60>>)}]
          [] t = "The Bluest Eye" ->
                [before |-> {Response("data", "", <<0, 0>>)},
                 after |-> {Response("data", "", <<40, 50, 60>>)}]
          [] OTHER ->
                [before |-> {Response("raise", "ReadTimeout", <<>>)},
                 after |-> {Response("raise", "ReadTimeout", <<>>)}]]

\* a provider that may refuse any request or answer it
FlakyProvider ==
    [t \in AllTitles |->
        [before |-> StubProvider[t].before \cup {Response("raise", "ResponseError 429", <<>>)},
         after |-> StubProvider[t].after \cup {Response("empty", "", <<>>)}]]

InitAll ==
    /\ pc = "done"
    /\ book_title = ""
    /\ ban_date_str = <<>>
    /\ retries = DefaultRetries
    /\ FreshLocals
    /\ clock = 0
    /\ trace = <<>>
    /\ result = Pending
    /\ \/ pytrends = StubProvider /\ books_df \in Tables
       \/ pytrends = FlakyProvider /\ books_df \in SmallTables
    /\ pcAll = "loop"
    /\ index = 0
    /\ all_results = <<>>
    /\ temp_csv = <<>>
    /\ output_csv = NotWritten
    /\ summary = NoSummary

\* lines 223-228: the next row of iterrows and the call get_trends_data(book_title, ban_date)
NextRow ==
    /\ pcAll = "loop"
    /\ index < Len(books_df.rows)
    /\ book_title' = books_df.rows[index + 1].title
    /\ ban_date_str' = books_df.rows[index + 1].date
    /\ retries' = DefaultRetries
    /\ ban_date' = NoDate
    /\ before_start' = NoDate /\ before_end' = NoDate
    /\ after_start' = NoDate /\ after_end' = NoDate
    /\ before_timeframe' = <<>> /\ after_timeframe' = <<>>
    /\ attempt' = 0
    /\ bound' = {}
    /\ before_df' = NoFrame /\ after_df' = NoFrame
    /\ before_values' = <<>> /\ after_values' = <<>>
    /\ before_avg' = Frac(0, 1) /\ before_max' = 0 /\ before_min' = 0
    /\ after_avg' = Frac(0, 1) /\ after_max' = 0 /\ after_min' = 0
    /\ percent_change' = [inf |-> FALSE, num |-> 0, den |-> 1]
    /\ absolute_change' = Frac(0, 1)
    /\ volatility' = [sq |-> 0, den |-> 1]
    /\ e' = ""
    /\ result' = Pending
    /\ pc' = "parse"
    /\ pcAll' = "call"
    /\ UNCHANGED <<clock, trace, pytrends, books_df, index, all_results, temp_csv,
                   output_csv, summary>>

\* row.get('State', 'Unknown') of the row with label i - 1
RowState(i) ==
    IF "State" \in books_df.columns THEN books_df.rows[i].state ELSE "Unknown"

\* result['state'] = ...
Stored(res, state) ==
    [keys |-> res.keys \cup {"state"}, book_title |-> res.book_title,
     ban_date |-> res.ban_date, stats |-> res.stats, data_collected |-> res.data_collected,
     collection_successful |-> res.collection_successful, error |-> res.error,
     state |-> state]

\* all_results after line 229-231: a dict is appended, None is not
Kept == IF result.kind = "dict"
        THEN Append(all_results, Stored(result, RowState(index + 1)))
        ELSE all_results

\* one to_csv of the _temp path
Snapshot(after, rows) == [after |-> after, rows |-> rows]

\* StoreResult with all_results.insert(0, result)
StoreResultPrepend ==
    /\ pcAll = "call"
    /\ pc = "done"
    /\ \/ /\ result.kind = "raise"
          /\ pcAll' = "crashed"
          /\ UNCHANGED <<index, all_results, temp_csv>>
       \/ /\ result.kind # "raise"
          /\ LET kept == IF result.kind = "dict"
                         THEN <<Stored(result, RowState(index + 1))>> \o all_results
                         ELSE all_results
             IN  /\ all_results' = kept
                 /\ temp_csv' = IF (index + 1) % SnapshotEvery = 0
                                THEN Append(temp_csv, Snapshot(index + 1, kept))
                                ELSE temp_csv
          /\ index' = index + 1
          /\ pcAll' = "loop"
    /\ UNCHANGED <<pc, args, windows, attempt, bound, beforeStats, afterStats, metrics,
                   e, clock, trace, result, pytrends, books_df, output_csv, summary>>

\* lines 228-237: the call has returned or raised; the record is kept, and after every
\* tenth row the records so far are written to the _temp path
StoreResult ==
    /\ pcAll = "call"
    /\ pc = "done"
    /\ \/ /\ result.kind = "raise"
          /\ pcAll' = "crashed"
          /\ UNCHANGED <<index, all_results, temp_csv>>
       \/ /\ result.kind # "raise"
          /\ all_results' = Kept
          /\ temp_csv' = IF (index + 1) % SnapshotEvery = 0
                         THEN Append(temp_csv, Snapshot(index + 1, Kept))
                         ELSE temp_csv
          /\ index' = index + 1
          /\ pcAll' = "loop"
    /\ UNCHANGED <<pc, args, windows, attempt, bound, beforeStats, afterStats, metrics,
                   e, clock, trace, result, pytrends, books_df, output_csv, summary>>

RECURSIVE CountSuccessful(_)
\* results_df['collection_successful'].sum()
CountSuccessful(rows) ==
    IF rows = <<>> THEN 0
    ELSE (IF Head(rows).collection_successful THEN 1 ELSE 0) + CountSuccessful(Tail(rows))

RECURSIVE PercentChanges(_)
\* the percent_change column without its missing values
PercentChanges(rows) ==
    IF rows = <<>> THEN <<>>
    ELSE (IF Head(rows).stats["percent_change"].null
          THEN <<>> ELSE <<Head(rows).stats["percent_change"]>>)
         \o PercentChanges(Tail(rows))

RECURSIVE SumH(_)
SumH(values) == IF values = <<>> THEN 0 ELSE Head(values).h + SumH(Tail(values))

\* f"{results_df['percent_change'].mean():.2f}": mean() skips missing values only
MeanPercentChange(rows) ==
    LET values == PercentChanges(rows)
    IN  IF values = <<>> THEN [nan |-> TRUE, inf |-> FALSE, h |-> 0]
        ELSE IF \E i \in DOMAIN values : values[i].inf
        THEN [nan |-> FALSE, inf |-> TRUE, h |-> 0]
        ELSE [nan |-> FALSE, inf |-> FALSE, h |-> RoundHalfEven(SumH(values), Len(values))]

\* lines 240-249: the output table is written, then the summary is printed; an empty
\* results_df has no column 'collection_successful'
Finish ==
    /\ pcAll = "loop"
    /\ ~(index < Len(books_df.rows))
    /\ output_csv' = [written |-> TRUE, rows |-> all_results]
    /\ summary' =
          IF all_results = <<>>
          THEN [NoSummary EXCEPT !.raised = "KeyError"]
          ELSE [printed |-> TRUE, raised |-> "", total |-> Len(all_results),
                successful |-> CountSuccessful(all_results),
                failed |-> Len(all_results) - CountSuccessful(all_results),
                mean |-> MeanPercentChange(all_results)]
    /\ pcAll' = "end"
    /\ UNCHANGED <<pc, args, windows, attempt, bound, beforeStats, afterStats, metrics,
                   e, clock, trace, result, pytrends, books_df, index, all_results,
                   temp_csv>>

NextAll ==
    \/ NextRow
    \/ Next
    \/ StoreResult
    \/ Finish

SpecAll == InitAll /\ [][NextAll]_vars

(* ------------------------------------------------------------------ *)
(* What the trace says about a run                                     *)
(* ------------------------------------------------------------------ *)

Count(op) == Cardinality({i \in DOMAIN trace : trace[i].op = op})

CountSleeps(secs) ==
    Cardinality({i \in DOMAIN trace : trace[i].op = "sleep" /\ trace[i].secs = secs})

\* attempt rounds started so far
Rounds == Count("round")

\* the round (1-based) that trace[i] belongs to; 0 before the first round
RoundAt(i) == Cardinality({j \in 1..i : trace[j].op = "round"})

\* a provider call raised in round r
RaisedInRound(r) ==
    \E i \in DOMAIN trace : trace[i].op = "raise" /\ RoundAt(i) = r

\* provider calls that returned a frame in round r
AnsweredInRound(r) ==
    Cardinality({i \in DOMAIN trace : trace[i].op = "response" /\ RoundAt(i) = r})

\* position of the last provider error; 0 if there is none
LastRaise ==
    LET at == {i \in DOMAIN trace : trace[i].op = "raise"}
    IN  IF at = {} THEN 0 ELSE CHOOSE i \in at : \A j \in at : j <= i

ValidDate == Strptime(ban_date_str).ok

Returned == pc = "done"

IsRecord == result.kind = "dict"

AllNull == \A k \in NumericKeys : result.stats[k].null

NoneNull == \A k \in NumericKeys : ~result.stats[k].null

IsFailureRecord ==
    /\ IsRecord
    /\ ~result.collection_successful
    /\ AllNull
    /\ "error" \in result.keys

IsSuccessRecord ==
    /\ IsRecord
    /\ result.collection_successful
    /\ NoneNull
    /\ "error" \notin result.keys

(* ------------------------------------------------------------------ *)
(* Claims                                                              *)
(* ------------------------------------------------------------------ *)

\* C1: every call of get_trends_data ends by returning a result record (success or
\* failure variant); it never raises and never returns without a record.
C1_AlwaysReturnsRecord == Returned => IsRecord

\* C2: when the event-date text does not parse, the call returns a failure record:
\* collection_successful false, every numeric field null, an error attached.
C2_InvalidDateFailureRecord == (Returned /\ ~ValidDate) => IsFailureRecord

\* C3: when the event-date text does not parse, no provider request is made, no delay
\* is slept and no attempt round is started.
C3_InvalidDateNoProviderCall ==
    ~ValidDate =>
        /\ Count("request") = 0
        /\ Count("sleep") = 0
        /\ Rounds = 0
        /\ clock = 0
        /\ pc \in {"parse", "done"}

C3_Witness == Returned /\ ~ValidDate /\ Len(trace) = 1

\* C4: a round in which both provider calls returned and a window's frame was empty
\* (or lacked the subject's column) ends with a success record whose average, maximum
\* and minimum of that window are 0; it is not abandoned for a backoff or a new round.
C4_EmptyWindowIsZeroSuccess ==
    (Rounds >= 1 /\ AnsweredInRound(Rounds) = 2
        /\ (~HasColumn(before_df) \/ ~HasColumn(after_df))
        /\ pc \notin {"metrics", "volatility", "return"})
    =>  /\ Returned
        /\ IsSuccessRecord
        /\ ~HasColumn(before_df) =>
              /\ result.stats["avg_search_before"] = Num(0)
              /\ result.stats["max_search_before"] = Num(0)
              /\ result.stats["min_search_before"] = Num(0)
        /\ ~HasColumn(after_df) =>
              /\ result.stats["avg_search_after"] = Num(0)
              /\ result.stats["max_search_after"] = Num(0)
              /\ result.stats["min_search_after"] = Num(0)

\* C5: for a valid date and retries >= 1, the returned record is a failure if and only
\* if a provider call raised in every one of the retries rounds.
C5_FailureIffEveryRoundRaised ==
    (Returned /\ ValidDate /\ retries >= 1 /\ IsRecord)
    =>  (~result.collection_successful
         <=> (Rounds = retries /\ \A r \in 1..retries : RaisedInRound(r)))

\* C6: every returned record is all-or-nothing: a success has all nine numeric fields
\* non-null and no error key, a failure has all of them null and an error key.
C6_AllOrNothing ==
    IsRecord =>
        /\ result.collection_successful => (NoneNull /\ "error" \notin result.keys)
        /\ ~result.collection_successful => (AllNull /\ "error" \in result.keys)
        /\ AllNull \/ NoneNull

C6_Witness ==
    /\ Returned /\ IsRecord /\ ~result.collection_successful
    /\ "before_values" \in bound /\ before_avg.num > 0

\* C7: when a provider call raised in each of the first k rounds and round k+1 got
\* data for both windows, with k < retries, the call returns a success record after
\* exactly k backoff delays of 20 and exactly k+1 rounds.
C7_RetryThenSuccess ==
    (ValidDate /\ Rounds >= 1
        /\ (\A r \in 1..(Rounds - 1) : RaisedInRound(r))
        /\ AnsweredInRound(Rounds) = 2
        /\ HasColumn(before_df) /\ HasColumn(after_df))
    =>  /\ Rounds <= retries
        /\ CountSleeps(BackoffDelay) = Rounds - 1
        /\ pc \in {"metrics", "volatility", "return", "done"}
        /\ Returned => IsSuccessRecord

C7_Witness ==
    /\ Returned /\ IsSuccessRecord
    /\ retries = 3 /\ Rounds = 3
    /\ RaisedInRound(1) /\ RaisedInRound(2) /\ ~RaisedInRound(3)
    /\ CountSleeps(BackoffDelay) = 2

\* C8: for a valid date and retries >= 1, when a provider call raised in every round,
\* the call returns a failure record after exactly retries rounds, whose error is the
\* error of the last round, with every numeric field null and no backoff after the
\* last failed round.
C8_ExhaustedFailure ==
    (Returned /\ ValidDate /\ retries >= 1 /\ Rounds >= 1
        /\ \A r \in 1..Rounds : RaisedInRound(r))
    =>  /\ IsFailureRecord
        /\ Rounds = retries
        /\ result.error = trace[LastRaise].arg
        /\ RoundAt(LastRaise) = retries
        /\ CountSleeps(BackoffDelay) = retries - 1
        /\ \A i \in DOMAIN trace : i > LastRaise => trace[i].op # "sleep"

C8_Witness ==
    /\ Returned /\ IsFailureRecord /\ retries = 3 /\ Rounds = 3
    /\ \A r \in 1..3 : RaisedInRound(r)
    /\ result.error = "ResponseError 429"
    /\ \E i \in DOMAIN trace : trace[i].op = "raise" /\ trace[i].arg = "ReadTimeout"

\* the calendar day after dt, by the calendar's own rule
NextDay(dt) ==
    IF dt.day < DaysInMonth(dt.year, dt.month) THEN Date(dt.year, dt.month, dt.day + 1)
    ELSE IF dt.month < 12 THEN Date(dt.year, dt.month + 1, 1)
    ELSE Date(dt.year + 1, 1, 1)

RECURSIVE DaysLater(_, _)
\* the day n days after dt, one calendar day at a time
DaysLater(dt, n) ==
    IF n = 0 THEN dt
    ELSE LET next == NextDay(dt)
         IN  IF next.day >= 1 THEN DaysLater(next, n - 1) ELSE NoDate

\* the two windows around ban_date: 90 days each counting both ends, one day away
\* from ban_date on each side, and written out as the two timeframe texts
WindowsAroundBanDate ==
    /\ NoDate \notin {before_start, before_end, after_start, after_end}
    /\ Len(before_timeframe) = 21 /\ Len(after_timeframe) = 21
    /\ NextDay(before_end) = ban_date
    /\ NextDay(ban_date) = after_start
    /\ DaysLater(before_start, WindowDays - 1) = before_end
    /\ DaysLater(after_start, WindowDays - 1) = after_end
    /\ DaysLater(before_end, 2) = after_start
    /\ Strptime(SubSeq(before_timeframe, 1, 10)) = [ok |-> TRUE, date |-> before_start]
    /\ Strptime(SubSeq(before_timeframe, 12, 21)) = [ok |-> TRUE, date |-> before_end]
    /\ Strptime(SubSeq(after_timeframe, 1, 10)) = [ok |-> TRUE, date |-> after_start]
    /\ Strptime(SubSeq(after_timeframe, 12, 21)) = [ok |-> TRUE, date |-> after_end]

\* C9: for every valid event date D the windows are [D - 90, D - 1] and [D + 1, D + 90]:
\* 90 days each, disjoint, neither containing D, two days from before.end to after.start.
C9_WindowsForEveryValidDate ==
    (ValidDate /\ pc \notin {"parse", "windows"}) => WindowsAroundBanDate

\* C10: in a success record whose before-window average is 0, percent_change is 0 when
\* the after-window average is 0 and +infinity when it is above 0, and absolute_change
\* equals the after-window average.
C10_ZeroBaseline ==
    (Returned /\ IsRecord /\ result.collection_successful /\ before_avg.num = 0)
    =>  /\ result.stats["avg_search_before"] = Num(0)
        /\ after_avg.num = 0 => result.stats["percent_change"] = Num(0)
        /\ after_avg.num > 0 => result.stats["percent_change"] = Inf
        /\ result.stats["absolute_change"] = result.stats["avg_search_after"]
        /\ result.stats["absolute_change"] = Num(Round2(after_avg))

C10_Witness ==
    /\ Returned /\ IsSuccessRecord
    /\ before_avg.num = 0 /\ after_avg.num = 0
    /\ result.stats["percent_change"] = Num(0)

\* the mean of the observations a frame holds for the subject, 0 for a frame without any
FrameMean(df) ==
    IF HasColumn(df) THEN Frac(SumSeq(df.values), Len(df.values)) ELSE Frac(0, 1)

\* a success record has been returned by a round whose before frame has a mean above 0
SuccessFromPositiveBaseline ==
    /\ Returned /\ IsRecord /\ result.collection_successful
    /\ FrameMean(before_df).num > 0

\* percent_change is round(((after - before) / before) * 100, 2) of the two frame means
PercentChangeOfFrames ==
    LET b == FrameMean(before_df)
        a == FrameMean(after_df)
    IN  result.stats["percent_change"] =
            Num(RoundHalfEven(10000 * (a.num * b.den - b.num * a.den), b.num * a.den))

\* C11 (as stated): in a success record with a before average above 0, percent_change
\* is the rounded relative change of the two means of the round's observations and
\* absolute_change is exactly the difference of the two means.
C11_ExactAbsoluteChange ==
    SuccessFromPositiveBaseline =>
        LET b == FrameMean(before_df)
            a == FrameMean(after_df)
        IN  /\ PercentChangeOfFrames
            /\ ~result.stats["absolute_change"].null
            /\ result.stats["absolute_change"].h * (a.den * b.den)
                 = 100 * (a.num * b.den - b.num * a.den)

\* C11 (amended): as above, with absolute_change the difference of the two means
\* rounded to 2 decimals.
C11_RoundedChange ==
    SuccessFromPositiveBaseline =>
        LET b == FrameMean(before_df)
            a == FrameMean(after_df)
        IN  /\ PercentChangeOfFrames
            /\ result.stats["avg_search_before"] = Num(RoundHalfEven(100 * b.num, b.den))
            /\ result.stats["avg_search_after"] = Num(RoundHalfEven(100 * a.num, a.den))
            /\ result.stats["absolute_change"] =
                  Num(RoundHalfEven(100 * (a.num * b.den - b.num * a.den), a.den * b.den))

C11_Witness ==
    /\ SuccessFromPositiveBaseline
    /\ before_df.values = <<10, 20, 25>> /\ after_df.values = <<40, 50, 60>>
    /\ result.stats["avg_search_before"] = Num(1833)
    /\ result.stats["percent_change"] = Num(17273)
    /\ result.stats["absolute_change"] = Num(3167)

\* the observations a frame holds for the subject
FrameValues(df) == IF HasColumn(df) THEN df.values ELSE <<>>

\* the observations the two provider calls of the last completed round returned
RoundPool == FrameValues(before_df) \o FrameValues(after_df)

\* C14: in a success record, volatility is the standard deviation of exactly the
\* observations the two provider calls of the producing round returned (0 when there
\* are none); observations of an earlier, failed round do not contribute.
C14_VolatilityOfProducingRound ==
    (Returned /\ IsRecord /\ result.collection_successful)
    =>  result.stats["volatility"] =
            IF RoundPool = <<>> THEN Num(0) ELSE Num(Round2Sqrt(StdDev(RoundPool)))

IsRequest(i) == i \in DOMAIN trace /\ trace[i].op = "request"

\* trace[i] is the first request of its round, trace[i] is a later request of its round
IsBeforeRequest(i) == IsRequest(i) /\ i > 1 /\ trace[i - 1].op = "round"
IsAfterRequest(i) == IsRequest(i) /\ ~IsBeforeRequest(i)

IsSleep(i, secs) == i \in DOMAIN trace /\ trace[i].op = "sleep" /\ trace[i].secs = secs

\* C15: in every round the before-window call comes first, then one delay of 12, then
\* the after-window call; an after-window call is made only after the round's
\* before-window call returned and one delay of 12 was slept; a round whose
\* before-window call raised has no delay of 12 and no after-window call.
C15_RoundOrder ==
    \A i \in DOMAIN trace :
        /\ trace[i].op = "round" =>
              i = Len(trace)
              \/ (IsBeforeRequest(i + 1) /\ trace[i + 1].timeframe = before_timeframe)
        /\ IsAfterRequest(i) =>
              /\ i >= 5
              /\ trace[i].timeframe = after_timeframe
              /\ IsSleep(i - 1, RateLimitDelay)
              /\ trace[i - 2].op = "response"
              /\ IsBeforeRequest(i - 3)
        /\ IsSleep(i, RateLimitDelay) =>
              /\ i >= 4
              /\ trace[i - 1].op = "response"
              /\ IsBeforeRequest(i - 2)
              /\ (i = Len(trace) \/ IsAfterRequest(i + 1))
        /\ (trace[i].op = "raise" /\ IsBeforeRequest(i - 1)) =>
              i = Len(trace) \/ trace[i + 1].op = "log"
        /\ trace[i].op = "log" =>
              i = Len(trace)
              \/ trace[i + 1].op = "round"
              \/ IsSleep(i + 1, BackoffDelay)
        /\ IsSleep(i, BackoffDelay) => i = Len(trace) \/ trace[i + 1].op = "round"

C15_Witness ==
    /\ Returned /\ Rounds = 2
    /\ RaisedInRound(1) /\ AnsweredInRound(1) = 0
    /\ AnsweredInRound(2) = 2
    /\ CountSleeps(RateLimitDelay) = 1

\* the two timeframe texts that the event date text stands for
ExpectedTimeframe(window) ==
    LET day == Strptime(ban_date_str).date
    IN  IF window = "before"
        THEN Timeframe(AddDays(day, -WindowDays), AddDays(day, -1))
        ELSE Timeframe(AddDays(day, 1), AddDays(day, WindowDays))

\* C16: in every round of a call, every provider request carries the call's subject
\* label, the scope US and the date range computed once from the event date: the
\* before range in before-window requests, the after range in after-window requests.
C16_SameRequestEveryRound ==
    \A i \in DOMAIN trace :
        IsRequest(i) =>
            /\ trace[i].arg = book_title
            /\ trace[i].geo = <<"U", "S">>
            /\ IsBeforeRequest(i) =>
                  /\ trace[i].timeframe = ExpectedTimeframe("before")
                  /\ trace[i].timeframe = before_timeframe
            /\ IsAfterRequest(i) =>
                  /\ trace[i].timeframe = ExpectedTimeframe("after")
                  /\ trace[i].timeframe = after_timeframe

C16_Witness ==
    /\ Returned /\ Rounds = 3 /\ Count("request") = 6
    /\ RaisedInRound(1) /\ RaisedInRound(2)

Max(a, b) == IF a >= b THEN a ELSE b

\* how far pc is from the return, within one round
StepsLeft ==
    CASE pc = "parse" -> 12 [] pc = "windows" -> 11 [] pc = "loop" -> 10
      [] pc = "before" -> 9 [] pc = "sleep" -> 8 [] pc = "after" -> 7
      [] pc = "metrics" -> 6 [] pc = "volatility" -> 5 [] pc = "return" -> 4
      [] pc = "except" -> 3 [] pc = "done" -> 0

\* an upper bound of the number of steps the call can still take
Variant == (retries - attempt) * 20 + StepsLeft

\* the call takes a step only while nothing has been returned, and every step brings
\* it closer to the return; where it has not returned it can take a step
C17_Progress == result.kind = "pending" /\ Variant' < Variant
C17_NotStuck == Returned \/ ENABLED Next

C17_BoundsAsStated ==
    ValidDate =>
        /\ Rounds <= retries
        /\ Count("request") <= 2 * retries
        /\ CountSleeps(RateLimitDelay) <= retries
        /\ CountSleeps(BackoffDelay) <= retries - 1

C17_Bounds ==
    ValidDate =>
        /\ Rounds <= retries
        /\ Count("request") <= 2 * retries
        /\ CountSleeps(RateLimitDelay) <= retries
        /\ CountSleeps(BackoffDelay) <= Max(retries - 1, 0)

\* C17 (as stated): a call with a valid date starts at most retries rounds, makes at
\* most 2 * retries provider calls, sleeps at most retries delays of 12 and at most
\* retries - 1 delays of 20, and terminates; no round starts after a record is produced.
C17_BoundedCallAsStated ==
    [](C17_BoundsAsStated /\ C17_NotStuck) /\ [][C17_Progress]_vars

\* C17 (amended): as above with at most max(retries - 1, 0) delays of 20.
C17_BoundedCall ==
    [](C17_Bounds /\ C17_NotStuck) /\ [][C17_Progress]_vars

C17_Witness ==
    /\ Returned /\ ValidDate /\ retries = 3
    /\ Rounds = 3 /\ Count("request") = 6
    /\ CountSleeps(RateLimitDelay) = 3 /\ CountSleeps(BackoffDelay) = 2

\* the record rec was made for the row with label i - 1
RecordOfRow(rec, i) ==
    /\ rec.book_title = books_df.rows[i].title
    /\ rec.ban_date = books_df.rows[i].date

\* C12: when the orchestrator has processed a table of n subjects, the output table
\* holds exactly n records, record i being the one of subject i, whether the subject
\* was collected, failed after its retries or had a malformed date.
C12_OneRecordPerSubject ==
    pcAll = "end" =>
        /\ output_csv.written
        /\ Len(output_csv.rows) = Len(books_df.rows)
        /\ \A i \in DOMAIN books_df.rows : RecordOfRow(output_csv.rows[i], i)

IsPrefix(s1, s2) == Len(s1) <= Len(s2) /\ SubSeq(s2, 1, Len(s1)) = s1

\* the events that a step adds to the trace
NewEvents == SubSeq(trace', Len(trace) + 1, Len(trace'))

\* every snapshot and the output table are the records kept so far, or a beginning of them
C13_FilesFollowResults ==
    /\ Len(all_results) <= index
    /\ \A k \in DOMAIN temp_csv : IsPrefix(temp_csv[k].rows, all_results)
    /\ output_csv.written => output_csv.rows = all_results

\* rows are taken in input order, one at a time; the records kept so far never change
\* but by the record of the row being processed put at their end
C13_RecordsInRowOrder ==
    /\ books_df' = books_df
    /\ index' \in {index, index + 1}
    /\ \/ all_results' = all_results
       \/ /\ index' = index + 1
          /\ Len(all_results') = Len(all_results) + 1
          /\ IsPrefix(all_results, all_results')
          /\ RecordOfRow(all_results'[Len(all_results')], index + 1)

\* a provider request is made only inside the call for the row being processed, for
\* that row's title, and the row does not change in that step
C13_RequestsOfCurrentRow ==
    \A i \in DOMAIN NewEvents :
        NewEvents[i].op = "request" =>
            /\ pcAll = "call"
            /\ index' = index
            /\ index < Len(books_df.rows)
            /\ NewEvents[i].arg = books_df.rows[index + 1].title

\* C13: the records of the output table and of every snapshot are in the order of their
\* subjects in the input table, and all provider calls for subject i are made before
\* any provider call for a later subject j.
C13_InputOrder ==
    []C13_FilesFollowResults /\ [][C13_RecordsInRowOrder /\ C13_RequestsOfCurrentRow]_vars

C13_Witness ==
    /\ pcAll = "end"
    /\ Len(books_df.rows) > SnapshotEvery
    /\ temp_csv # <<>>
    /\ Len(output_csv.rows) >= 3
    /\ output_csv.rows[1].book_title # output_csv.rows[2].book_title
    /\ output_csv.rows[1].collection_successful
    /\ \E i \in DOMAIN output_csv.rows : ~output_csv.rows[i].collection_successful

\* C18: a snapshot is written exactly when the number of subjects processed is a
\* positive multiple of 10, and the snapshot written after the k-th subject holds the
\* records of all k subjects.
C18_SnapshotEveryTen ==
    /\ pcAll \in {"loop", "end"} => Len(temp_csv) = index \div SnapshotEvery
    /\ \A k \in DOMAIN temp_csv :
          /\ temp_csv[k].after = k * SnapshotEvery
          /\ Len(temp_csv[k].rows) = temp_csv[k].after
          /\ \A i \in 1..temp_csv[k].after : RecordOfRow(temp_csv[k].rows[i], i)

IsFinite(value) == ~value.inf

\* C19: the mean percent change of the summary is the mean of the finite
\* percent_change values of the records; a from-zero record does not make it infinite.
C19_MeanIgnoresInf ==
    summary.printed =>
        LET finite == SelectSeq(PercentChanges(output_csv.rows), IsFinite)
        IN  /\ ~summary.mean.inf
            /\ finite # <<>> =>
                  summary.mean =
                      [nan |-> FALSE, inf |-> FALSE,
                       h |-> RoundHalfEven(SumH(finite), Len(finite))]

====
